---------------------------- MODULE Spec2Model ----------------------------
(***************************************************************************)
(* A model of piotrwozniak28/gcp_exceptions.                               *)
(*                                                                         *)
(*  - the exceptions processor: the command line of process_exceptions.py, *)
(*    the pydantic models of schema_models.py and process_exceptions       *)
(*    itself (validate, match every rule, aggregate, write the file);      *)
(*  - the secret renewal function: handle_secret_expiration of             *)
(*    secret-renewal-function/main.py.                                     *)
(*                                                                         *)
(* Strings whose characters the code inspects (ids, versions, name         *)
(* suffixes, regular expressions, project ids, durations) are sequences of *)
(* one-character strings.                                                  *)
(***************************************************************************)
EXTENDS Integers, Sequences, FiniteSets, TLC

VARIABLES
    \* ---- exceptions processor -------------------------------------------
    pc,                 \* position of the command-line run
    mode,               \* "file" (--schema-file-path) or "string" (--schema-json-string)
    jsonOk,             \* whether the raw schema text is syntactically valid JSON
    schema_data,        \* the parsed document (meaningful when jsonOk)
    project_id,         \* --project-id
    parentDir,          \* whether the output file's parent directory exists
    outFile,            \* what the output path holds
    next_rule,          \* index of the rule the matching loop is at
    service_accounts,   \* aggregated service accounts
    iam_policy_overrides,
    matched_exceptions, \* ids of the matched rules
    log,                \* one record per rule the loop has processed
    err,                \* the exception that ended the run, "none" otherwise
    exit_code,          \* -1 while running
    \* ---- secret renewal function ----------------------------------------
    hpc,                \* position of handle_secret_expiration
    event,              \* the cloud event's data
    secret,             \* the secret as Secret Manager holds it
    secret_resource,    \* what get_secret returned
    now,                \* the clock when the handler runs
    extension,          \* timedelta(days=expiration_extension_time)
    new_expiration,     \* new_expiration_str, <<>> until it is computed
    keysCreated,        \* service-account keys created
    versionsAdded,      \* secret versions added
    apiCalls,           \* the API calls made, in order
    result              \* the handler's return value, "none" while running

procVars == <<pc, mode, jsonOk, schema_data, project_id, parentDir, outFile, next_rule,
              service_accounts, iam_policy_overrides, matched_exceptions, log,
              err, exit_code>>
handlerVars == <<hpc, event, secret, secret_resource, now, extension, new_expiration,
                 keysCreated, versionsAdded, apiCalls, result>>
vars == <<procVars, handlerVars>>

-----------------------------------------------------------------------------
(* Bounds of the model *)

\* the longest list of rules a document holds
MaxRules == 2

-----------------------------------------------------------------------------
(* Characters and generic helpers *)

Digit == {"0", "1", "2", "3", "4", "5", "6", "7", "8", "9"}
Lower == {"a", "b", "c", "d", "e", "f", "g", "h", "i", "j", "k", "l", "m",
          "n", "o", "p", "q", "r", "s", "t", "u", "v", "w", "x", "y", "z"}

Range(s) == {s[k] : k \in 1..Len(s)}

SeqsUpTo(S, n) == UNION {[1..k -> S] : k \in 0..n}

-----------------------------------------------------------------------------
(* schema_models.py: the pydantic models.  A field constraint is what     *)
(* pydantic enforces in model_validate from the Field(...) declaration.   *)

\* ServiceAccount.name_suffix: min_length=1, max_length=4,
\* pattern ^[a-z](?:[-a-z0-9]*[a-z0-9])?$
NameSuffixOk(s) ==
    /\ Len(s) >= 1
    /\ Len(s) <= 4
    /\ s[1] \in Lower
    /\ Len(s) > 1 =>
          /\ s[Len(s)] \in Lower \cup Digit
          /\ \A k \in 2..(Len(s) - 1) : s[k] \in Lower \cup Digit \cup {"-"}

\* ServiceAccount: name_suffix, iam_roles (min_length=1), create_json_key (bool),
\* description (max_length=256, default "")
Description(sa) == IF "description" \in DOMAIN sa THEN sa.description ELSE <<>>

ServiceAccountOk(sa) ==
    /\ NameSuffixOk(sa.name_suffix)
    /\ Len(sa.iam_roles) >= 1
    /\ sa.create_json_key \in BOOLEAN
    /\ Len(Description(sa)) <= 256

\* ServiceAccount.model_dump(): the four declared fields, whatever else the
\* input carried, the description defaulted
model_dump(sa) ==
    [name_suffix |-> sa.name_suffix, iam_roles |-> sa.iam_roles,
     create_json_key |-> sa.create_json_key, description |-> Description(sa)]

\* ServiceAccountSpec: service_accounts is required, min_length=1
ServiceAccountSpecOk(sp) ==
    /\ "service_accounts" \in DOMAIN sp
    /\ Len(sp.service_accounts) >= 1
    /\ \A k \in 1..Len(sp.service_accounts) : ServiceAccountOk(sp.service_accounts[k])

\* Exception.id: pattern ^\d{3}$
IdOk(id) == Len(id) = 3 /\ \A k \in 1..3 : id[k] \in Digit

\* the type tag open to both kinds of rule
TypeOkEither(t) == t \in {"create_service_accounts", "override_iam_policies"}

\* Exception.type: Literal["create_service_accounts"]
TypeOk(t) == t = "create_service_accounts"

\* Exception: the declared fields and their constraints
ExceptionOk(e) ==
    /\ IdOk(e.id)
    /\ TypeOk(e.type)
    /\ Len(e.project_id_regex) >= 1
    /\ Len(e.description) >= 1
    /\ ServiceAccountSpecOk(e.spec)

\* the maximal run of digits of s that starts at position k (its length)
RECURSIVE DigitRun(_, _)
DigitRun(s, k) ==
    IF k <= Len(s) /\ s[k] \in Digit THEN 1 + DigitRun(s, k + 1) ELSE 0

\* ExceptionsSchema.version: pattern ^\d+\.\d+\.\d+$
VersionOk(v) ==
    LET a == DigitRun(v, 1)
        b == DigitRun(v, a + 2)
        c == DigitRun(v, a + b + 3)
    IN  /\ a >= 1 /\ b >= 1 /\ c >= 1
        /\ Len(v) = a + b + c + 2
        /\ v[a + 1] = "." /\ v[a + b + 2] = "."

\* ExceptionsSchema: version and exceptions (min_length=0)
ExceptionsSchemaOk(d) ==
    /\ VersionOk(d.version)
    /\ \A k \in 1..Len(d.exceptions) : ExceptionOk(d.exceptions[k])

-----------------------------------------------------------------------------
(* Python's re, for the patterns the model draws: literal characters, ".", *)
(* a postfix "*", and the assertions "^" and "$".  A project id holds no   *)
(* line break, so "$" is the end of the string and "." any character.      *)

\* the items of a pattern: each a literal, "." or an assertion, starred or not
IsAssertion(c) == c \in {"^", "$"}

\* re.compile: "*" with nothing to repeat (at the start or after an assertion)
\* and "*" after "*" (multiple repeat) raise re.error
Compiles(p) ==
    \A k \in 1..Len(p) :
        p[k] = "*" => /\ k > 1
                      /\ ~IsAssertion(p[k - 1])
                      /\ p[k - 1] # "*"

\* whether the item at position k of p is followed by "*"
Starred(p, k) == k < Len(p) /\ p[k + 1] = "*"

\* whether the item c (a literal or ".") accepts the character ch
Accepts(c, ch) == c = "." \/ c = ch

\* the backtracking matcher: whether p from its item at k matches s from
\* offset j on (j characters are consumed), ending anywhere
RECURSIVE MatchHere(_, _, _, _)
MatchHere(p, k, s, j) ==
    IF k > Len(p) THEN TRUE
    ELSE IF p[k] = "^" THEN j = 0 /\ MatchHere(p, k + 1, s, j)
    ELSE IF p[k] = "$" THEN j = Len(s) /\ MatchHere(p, k + 1, s, j)
    ELSE IF Starred(p, k)
         THEN \E n \in 0..(Len(s) - j) :
                 /\ \A m \in (j + 1)..(j + n) : Accepts(p[k], s[m])
                 /\ MatchHere(p, k + 2, s, j + n)
    ELSE /\ j < Len(s)
         /\ Accepts(p[k], s[j + 1])
         /\ MatchHere(p, k + 1, s, j + 1)

\* re.search in the place of re.match: every offset is tried
ReSearch(p, s) == \E j \in 0..Len(s) : MatchHere(p, 1, s, j)

\* re.match(pattern, string): the match is tried at offset 0 only and need not
\* reach the end of the string.  Defined for patterns that compile.
ReMatch(p, s) == MatchHere(p, 1, s, 0)

-----------------------------------------------------------------------------
(* schema_models.py: the validator methods and model_validate *)

\* Exception.validate_regex: raises ValueError unless the pattern compiles
validate_regex(e) == Compiles(e.project_id_regex)

\* ExceptionsSchema.validate_unique_ids: raises ValueError unless
\* len(ids) == len(set(ids))
validate_unique_ids(d) ==
    Len(d.exceptions) = Cardinality({d.exceptions[k].id : k \in 1..Len(d.exceptions)})

\* ExceptionsSchema.model_validate: pydantic checks the declared fields.
\* validate_regex and validate_unique_ids are plain methods, carry no
\* @model_validator decorator and are called nowhere: model_validate does
\* not run them.
model_validate(d) == ExceptionsSchemaOk(d)

-----------------------------------------------------------------------------
(* The inputs the model draws *)

lab_dev_01     == <<"l", "a", "b", "-", "d", "e", "v", "-", "0", "1">>
lab_devops_99  == <<"l", "a", "b", "-", "d", "e", "v", "o", "p", "s", "-", "9", "9">>
staging_prod_1 == <<"s", "t", "a", "g", "i", "n", "g", "-", "p", "r", "o", "d", "-", "1">>
prod_01        == <<"p", "r", "o", "d", "-", "0", "1">>

ProjectIds == {lab_dev_01, lab_devops_99, staging_prod_1, prod_01}

re_lab       == <<"^", "l", "a", "b", "-">>                               \* ^lab-
re_lab_dev   == <<"^", "l", "a", "b", "-", "d", "e", "v", "-", ".", "*", "$">>  \* ^lab-dev-.*$
re_prod      == <<"^", "p", "r", "o", "d", "-", ".", "*", "$">>           \* ^prod-.*$
re_dev       == <<"d", "e", "v", "-">>                                    \* dev-
re_bad       == <<"*", "l", "a", "b">>                                    \* *lab

saApi == [name_suffix |-> <<"a", "p", "i">>, iam_roles |-> <<"roles/viewer">>,
          create_json_key |-> TRUE, description |-> <<>>]
\* saApi with a key the model does not declare
saApiExtra == [name_suffix |-> <<"a", "p", "i">>, iam_roles |-> <<"roles/viewer">>,
               create_json_key |-> TRUE, description |-> <<>>, note |-> "x"]
\* the name of saApi with other roles
saApiEditor == [name_suffix |-> <<"a", "p", "i">>, iam_roles |-> <<"roles/editor">>,
                create_json_key |-> TRUE, description |-> <<>>]
\* no description: the default applies
saData == [name_suffix |-> <<"d", "a", "t", "a">>, iam_roles |-> <<"roles/viewer">>,
           create_json_key |-> FALSE]
\* a name_suffix of five characters
saAdmin == [name_suffix |-> <<"a", "d", "m", "i", "n">>, iam_roles |-> <<"roles/owner">>,
            create_json_key |-> FALSE, description |-> <<>>]

id100 == <<"1", "0", "0">>
id200 == <<"2", "0", "0">>
id300 == <<"3", "0", "0">>
text  == <<"t">>

\* a rule of the other type, written in full: it names policy overrides next
\* to its service accounts
overrideRule ==
    [id |-> id300, type |-> "override_iam_policies", project_id_regex |-> re_lab,
     description |-> text,
     spec |-> [service_accounts |-> <<saApi>>,
               boolean_policy_overrides |-> <<[constraint |-> "c", enforce |-> TRUE]>>]]

Rule(id, type, regex, sas) ==
    [id |-> id, type |-> type, project_id_regex |-> regex, description |-> text,
     spec |-> [service_accounts |-> sas]]

RulePool ==
    { Rule(id100, "create_service_accounts", re_lab, <<saApi, saData>>),
      Rule(id200, "create_service_accounts", re_lab_dev, <<saApiExtra, saApiEditor, saApi>>),
      Rule(id300, "create_service_accounts", re_prod, <<saData, saApiEditor>>),
      Rule(id300, "create_service_accounts", re_dev, <<saData>>),
      \* the id of the first rule again
      Rule(id100, "create_service_accounts", re_lab_dev, <<saData>>),
      \* a pattern that does not compile
      Rule(id300, "create_service_accounts", re_bad, <<saApi>>),
      \* a type the model does not declare
      [id |-> id200, type |-> "override_iam_policies", project_id_regex |-> re_lab,
       description |-> text,
       spec |-> [boolean_policy_overrides |-> <<[constraint |-> "c", enforce |-> TRUE]>>]],
      overrideRule,
      \* field constraints: a two-character id, a long name_suffix, no service account
      Rule(<<"1", "x">>, "create_service_accounts", re_lab, <<saApi>>),
      Rule(id200, "create_service_accounts", re_lab, <<saAdmin>>),
      Rule(id300, "create_service_accounts", re_lab, <<>>) }

Versions == { <<"1", ".", "0", ".", "0">>, <<"1", ".", "0">> }

Documents == [version : Versions, exceptions : SeqsUpTo(RulePool, MaxRules)]

\* what schema_data is when the raw text is not JSON: there is no document
NoDocument == [version |-> <<>>, exceptions |-> <<>>]

-----------------------------------------------------------------------------
(* process_exceptions.py: the command line and process_exceptions *)

\* region="europe-west4"
region == "europe-west4"

Absent  == [exists |-> FALSE, fresh |-> FALSE, data |-> <<>>, complete |-> FALSE]
\* a file an earlier run left at the output path
OldFile == [exists |-> TRUE, fresh |-> FALSE, data |-> <<>>, complete |-> TRUE]
\* open(output_path, 'w'): the file is created or truncated to nothing
Truncated == [exists |-> TRUE, fresh |-> TRUE, data |-> <<>>, complete |-> FALSE]

InitProcessor ==
    /\ pc = "start"
    /\ mode \in {"file", "string"}
    /\ jsonOk \in BOOLEAN
    /\ schema_data \in (IF jsonOk THEN Documents ELSE {NoDocument})
    /\ project_id \in ProjectIds
    /\ outFile \in {Absent, OldFile}
    /\ parentDir \in (IF outFile.exists THEN {TRUE} ELSE BOOLEAN)
    /\ next_rule = 0
    /\ service_accounts = <<>>
    /\ iam_policy_overrides = <<>>
    /\ matched_exceptions = <<>>
    /\ log = <<>>
    /\ err = "none"
    /\ exit_code = -1

\* the processor has not been started
IdleProcessor ==
    /\ pc = "idle"
    /\ mode = "file"
    /\ jsonOk = TRUE
    /\ schema_data = NoDocument
    /\ project_id = <<>>
    /\ outFile = Absent
    /\ parentDir = FALSE
    /\ next_rule = 0
    /\ service_accounts = <<>>
    /\ iam_policy_overrides = <<>>
    /\ matched_exceptions = <<>>
    /\ log = <<>>
    /\ err = "none"
    /\ exit_code = -1

\* json.loads swallowed: the except branch without its exit(1)
JsonErrorIgnored(m) == "loaded"

\* where the run goes when the raw text is not JSON: --schema-json-string
\* catches json.JSONDecodeError, logs and calls exit(1); --schema-file-path
\* lets json.load's exception end the run
JsonErrorGoesTo(m) == IF m = "string" THEN "exited" ELSE "raised"

\* __main__: load the schema from the file or the string
LoadSchema ==
    /\ pc = "start"
    /\ IF jsonOk
       THEN pc' = "loaded" /\ UNCHANGED <<err, exit_code>>
       ELSE /\ pc' = JsonErrorGoesTo(mode)
            /\ err' = "JSONDecodeError"
            /\ exit_code' = 1
    /\ UNCHANGED <<mode, jsonOk, schema_data, project_id, parentDir, outFile,
                   next_rule, service_accounts, iam_policy_overrides,
                   matched_exceptions, log>>
    /\ UNCHANGED handlerVars

\* __main__: args.output_file.parent.mkdir(parents=True, exist_ok=True)
MakeParentDir ==
    /\ pc = "loaded"
    /\ parentDir' = TRUE
    /\ pc' = "call"
    /\ UNCHANGED <<mode, jsonOk, schema_data, project_id, outFile, next_rule,
                   service_accounts, iam_policy_overrides, matched_exceptions,
                   log, err, exit_code>>
    /\ UNCHANGED handlerVars

\* process_exceptions, to the start of the loop: model_validate, its failure
\* re-raised as ValueError("Invalid schema: ..."), then the empty lists
Validate ==
    /\ pc = "call"
    /\ IF model_validate(schema_data)
       THEN /\ pc' = "loop"
            /\ next_rule' = 1
            /\ UNCHANGED <<err, exit_code>>
       ELSE /\ pc' = "raised"
            /\ err' = "ValueError: Invalid schema"
            /\ exit_code' = 1
            /\ UNCHANGED next_rule
    /\ service_accounts' = <<>>
    /\ iam_policy_overrides' = <<>>
    /\ matched_exceptions' = <<>>
    /\ UNCHANGED <<mode, jsonOk, schema_data, project_id, parentDir, outFile, log>>
    /\ UNCHANGED handlerVars

\* the append without its "not in" test
AppendAlways(list, x) == Append(list, x)

\* if sa_dict not in service_accounts: service_accounts.append(sa_dict)
AppendIfAbsent(list, x) == IF x \in Range(list) THEN list ELSE Append(list, x)

\* for sa in exception.spec.service_accounts: the items from the k-th on
RECURSIVE AddServiceAccounts(_, _, _)
AddServiceAccounts(list, items, k) ==
    IF k > Len(items) THEN list
    ELSE AddServiceAccounts(AppendIfAbsent(list, model_dump(items[k])), items, k + 1)

\* for policy in exception.spec.boolean_policy_overrides: the same discipline
RECURSIVE AddPolicyOverrides(_, _, _)
AddPolicyOverrides(list, items, k) ==
    IF k > Len(items) THEN list
    ELSE AddPolicyOverrides(AppendIfAbsent(list, items[k]), items, k + 1)

\* one iteration of "for exception in valid_exceptions"
LoopStep ==
    /\ pc = "loop"
    /\ next_rule <= Len(schema_data.exceptions)
    /\ LET exception == schema_data.exceptions[next_rule] IN
       IF ~Compiles(exception.project_id_regex)
       THEN \* re.match compiles the pattern and raises re.error
            /\ pc' = "raised"
            /\ err' = "re.error"
            /\ exit_code' = 1
            /\ UNCHANGED <<next_rule, service_accounts, iam_policy_overrides,
                           matched_exceptions, log>>
       ELSE /\ pc' = "loop"
            /\ next_rule' = next_rule + 1
            /\ UNCHANGED <<err, exit_code>>
            /\ IF ReMatch(exception.project_id_regex, project_id)
               THEN /\ matched_exceptions' = Append(matched_exceptions, exception.id)
                    /\ log' = Append(log, [id |-> exception.id, matched |-> TRUE])
                    /\ IF exception.type = "create_service_accounts"
                       THEN /\ service_accounts' =
                                 AddServiceAccounts(service_accounts,
                                                    exception.spec.service_accounts, 1)
                            /\ UNCHANGED iam_policy_overrides
                       ELSE IF exception.type = "override_iam_policies"
                       THEN /\ iam_policy_overrides' =
                                 AddPolicyOverrides(iam_policy_overrides,
                                                    exception.spec.boolean_policy_overrides, 1)
                            /\ UNCHANGED service_accounts
                       ELSE UNCHANGED <<service_accounts, iam_policy_overrides>>
               ELSE /\ log' = Append(log, [id |-> exception.id, matched |-> FALSE])
                    /\ UNCHANGED <<matched_exceptions, service_accounts,
                                   iam_policy_overrides>>
    /\ UNCHANGED <<mode, jsonOk, schema_data, project_id, parentDir, outFile>>
    /\ UNCHANGED handlerVars

\* terraform_vars, as json.dump writes it: the keys in insertion order
terraform_vars ==
    << <<"project_id", project_id>>,
       <<"region", region>>,
       <<"service_accounts", service_accounts>>,
       <<"iam_policy_overrides", iam_policy_overrides>> >>

\* with open(output_path, 'w') as f: the file is truncated in place, or the
\* open fails (OSError) and leaves the path as it was
OpenOutput ==
    /\ pc = "loop"
    /\ next_rule > Len(schema_data.exceptions)
    /\ \E opened \in BOOLEAN :
          IF opened
          THEN /\ outFile' = Truncated
               /\ pc' = "dump"
               /\ UNCHANGED <<err, exit_code>>
          ELSE /\ pc' = "raised"
               /\ err' = "OSError"
               /\ exit_code' = 1
               /\ UNCHANGED outFile
    /\ UNCHANGED <<mode, jsonOk, schema_data, project_id, parentDir, next_rule,
                   service_accounts, iam_policy_overrides, matched_exceptions, log>>
    /\ UNCHANGED handlerVars

\* json.dump(terraform_vars, f, indent=4): the text reaches the file piece by
\* piece, here one key at a time
DumpKey ==
    /\ pc = "dump"
    /\ Len(outFile.data) < Len(terraform_vars)
    /\ outFile' = [outFile EXCEPT !.data = Append(@, terraform_vars[Len(@) + 1])]
    /\ UNCHANGED <<pc, mode, jsonOk, schema_data, project_id, parentDir, next_rule,
                   service_accounts, iam_policy_overrides, matched_exceptions, log,
                   err, exit_code>>
    /\ UNCHANGED handlerVars

\* the end of the with block closes the file; the run ends with status 0
CloseOutput ==
    /\ pc = "dump"
    /\ Len(outFile.data) = Len(terraform_vars)
    /\ outFile' = [outFile EXCEPT !.complete = TRUE]
    /\ pc' = "done"
    /\ exit_code' = 0
    /\ UNCHANGED <<mode, jsonOk, schema_data, project_id, parentDir, next_rule,
                   service_accounts, iam_policy_overrides, matched_exceptions, log, err>>
    /\ UNCHANGED handlerVars

NextProcessor ==
    \/ LoadSchema
    \/ MakeParentDir
    \/ Validate
    \/ LoopStep
    \/ OpenOutput
    \/ DumpKey
    \/ CloseOutput

-----------------------------------------------------------------------------
(* secret-renewal-function/main.py *)

\* str.lower() on the characters a duration label is drawn from
LowerChar(c) == IF c = "D" THEN "d" ELSE IF c = "H" THEN "h" ELSE IF c = "M" THEN "m" ELSE c

DigitValue(c) ==
    CASE c = "0" -> 0 [] c = "1" -> 1 [] c = "2" -> 2 [] c = "3" -> 3 [] c = "4" -> 4
      [] c = "5" -> 5 [] c = "6" -> 6 [] c = "7" -> 7 [] c = "8" -> 8 [] c = "9" -> 9

\* the digits s[a..b] read as a decimal number
RECURSIVE DecimalValue(_, _, _)
DecimalValue(s, a, b) ==
    IF a > b THEN 0 ELSE 10 * DecimalValue(s, a, b - 1) + DigitValue(s[b])

RECURSIVE Pow10(_)
Pow10(n) == IF n = 0 THEN 1 ELSE 10 * Pow10(n - 1)

\* seconds in one unit of a duration: value, value / 24.0, value / (24.0 * 60.0) days
UnitSeconds(u) == IF u = "d" THEN 86400 ELSE IF u = "h" THEN 3600 ELSE 60

\* re.match(r'^(\d*\.?\d+)([dhm])$', duration_str.lower()): whether the text
\* is a number (digits, or digits "." digits, or "." digits) and a unit
DurationWellFormed(s) ==
    LET n == Len(s)
        a == DigitRun(s, 1)
    IN  /\ n >= 2
        /\ LowerChar(s[n]) \in {"d", "h", "m"}
        /\ \/ a = n - 1
           \/ /\ a < n - 1
              /\ s[a + 1] = "."
              /\ DigitRun(s, a + 2) = n - a - 2
              /\ n - a - 2 >= 1

\* parse_time_duration, for a well-formed text, and timedelta(days=...) of
\* its result: the duration in seconds and microseconds (the code returns
\* days as a float and timedelta converts it to whole microseconds; a text
\* has at most six fractional digits here, for which the conversion is exact)
parse_time_duration(s) ==
    LET n == Len(s)
        a == DigitRun(s, 1)
        f == IF a = n - 1 THEN 0 ELSE n - a - 2
        whole == DecimalValue(s, 1, a)
        frac == IF f = 0 THEN 0 ELSE DecimalValue(s, a + 2, n - 1)
        total == (whole * Pow10(f) + frac) * UnitSeconds(LowerChar(s[n]))
    IN  [s |-> total \div Pow10(f),
         us |-> ((total % Pow10(f)) * Pow10(6)) \div Pow10(f)]

\* A point in time is a record: s, the seconds since 1970-01-01T00:00:00Z, and
\* us, the microseconds.
\* the number of days from 1970-01-01 to the civil date y-m-d
days_from_civil(y, m, d) ==
    LET yy == IF m <= 2 THEN y - 1 ELSE y
        era == yy \div 400
        yoe == yy - era * 400
        mp == IF m > 2 THEN m - 3 ELSE m + 9
        doy == (153 * mp + 2) \div 5 + d - 1
        doe == yoe * 365 + yoe \div 4 - yoe \div 100 + doy
    IN  era * 146097 + doe - 719468

\* the civil date of the day z days after 1970-01-01
civil_from_days(z) ==
    LET zz == z + 719468
        era == zz \div 146097
        doe == zz - era * 146097
        yoe == (doe - doe \div 1460 + doe \div 36524 - doe \div 146096) \div 365
        doy == doe - (365 * yoe + yoe \div 4 - yoe \div 100)
        mp == (5 * doy + 2) \div 153
        m == IF mp < 10 THEN mp + 3 ELSE mp - 9
    IN  [year |-> yoe + era * 400 + (IF m <= 2 THEN 1 ELSE 0),
         month |-> m,
         day |-> doy - (153 * mp + 2) \div 5 + 1]

\* datetime(y, mo, d, h, mi, sec, us, tzinfo=utc)
datetime(y, mo, d, h, mi, sec, us) ==
    [s |-> days_from_civil(y, mo, d) * 86400 + h * 3600 + mi * 60 + sec, us |-> us]

\* datetime + timedelta
DatetimePlus(t, d) ==
    [s |-> t.s + d.s + (t.us + d.us) \div Pow10(6), us |-> (t.us + d.us) % Pow10(6)]

DigitChar(d) == <<"0", "1", "2", "3", "4", "5", "6", "7", "8", "9">>[d + 1]

\* the number n written with w digits, zero padded (%Y, %m, %d, %H, %M, %S, %f)
RECURSIVE Padded(_, _)
Padded(n, w) == IF w = 0 THEN <<>> ELSE Append(Padded(n \div 10, w - 1), DigitChar(n % 10))

\* t.strftime("%Y-%m-%dT%H:%M:%S.%fZ")
strftime(t) ==
    LET c == civil_from_days(t.s \div 86400)
        r == t.s % 86400
    IN  Padded(c.year, 4) \o <<"-">> \o Padded(c.month, 2) \o <<"-">> \o Padded(c.day, 2)
        \o <<"T">> \o Padded(r \div 3600, 2) \o <<":">> \o Padded((r % 3600) \div 60, 2)
        \o <<":">> \o Padded(r % 60, 2) \o <<".">> \o Padded(t.us, 6) \o <<"Z">>

\* Secret(expire_time=new_expiration_str): the timestamp a text of the form
\* YYYY-MM-DDTHH:MM:SS.ffffffZ denotes
FromJsonString(x) ==
    datetime(DecimalValue(x, 1, 4), DecimalValue(x, 6, 7), DecimalValue(x, 9, 10),
             DecimalValue(x, 12, 13), DecimalValue(x, 15, 16), DecimalValue(x, 18, 19),
             DecimalValue(x, 21, 26))

\* the secret's expire_time when the secret has none (None)
NoExpiration == [s |-> 0 - 1, us |-> 0]
\* the secret's expire_time when the event arrives
Expiration0 == datetime(2026, 1, 1, 0, 0, 0, 0)
Expiration1 == datetime(2027, 12, 31, 23, 59, 59, 999999)

\* the clock when the handler runs: within the secret's last hour, or later
Clocks == {datetime(2025, 12, 31, 23, 10, 0, 0), datetime(2027, 12, 31, 23, 59, 0, 5)}

\* extension before the label is parsed
NoDuration == [s |-> 0, us |-> 0]

EventTypes == {"EXPIRES_IN_1_HOUR", "EXPIRES_IN_1_DAY", "absent"}

\* event_data: a key is present or absent
Events ==
    [type : EventTypes,
     name : BOOLEAN,                                   \* jsonPayload.name
     secret_id : BOOLEAN,                              \* resource.labels.secret_id
     resource_container : {"absent", "empty", "set"},  \* "empty": "projects/"
     logName : BOOLEAN]                                \* holds "/logs/"

\* a label's value: the key absent, the empty string, or a text
ServiceAccountNames == {"absent", "empty", "sa"}
ExtensionTexts ==
    { <<"absent">>, <<>>, <<"1", "d">>, <<"1", "2", "H">>, <<"3", "0", "m">>,
      <<"1", ".", "5", "d">>, <<"0", ".", "0", "0", "1", "m">>, <<"5", "x">>, <<"d">> }

\* what "not label" is true of: the key absent (None) or the empty string
NameMissing(v) == v \in {"absent", "empty"}
TextMissing(v) == v \in {<<"absent">>, <<>>}

Secrets ==
    [ccoe_service_account_name : ServiceAccountNames,
     ccoe_expiration_extension_time : ExtensionTexts,
     expire_time : {NoExpiration, Expiration0, Expiration1}]

\* secret_resource before get_secret has returned
NotFetched == [fetched |-> FALSE, ccoe_service_account_name |-> "absent",
               ccoe_expiration_extension_time |-> <<"absent">>,
               expire_time |-> NoExpiration]

\* secret_resource once get_secret has returned the secret s
Fetched(s) == [fetched |-> TRUE,
               ccoe_service_account_name |-> s.ccoe_service_account_name,
               ccoe_expiration_extension_time |-> s.ccoe_expiration_extension_time,
               expire_time |-> s.expire_time]

NoSecret == [ccoe_service_account_name |-> "absent",
             ccoe_expiration_extension_time |-> <<"absent">>,
             expire_time |-> NoExpiration]

OK == <<"OK">>
ERROR(msg) == <<"ERROR: ", msg>>
\* the except clause dropped: the exception leaves the handler
Propagated == <<"raised", "exception">>

\* f"ERROR: {str(e)}" of the except clause
ERROR_exception == ERROR("exception")

InitHandler ==
    /\ hpc = "start"
    /\ event \in Events
    /\ secret \in Secrets
    /\ secret_resource = NotFetched
    /\ now \in Clocks
    /\ extension = NoDuration
    /\ new_expiration = <<>>
    /\ keysCreated = 0
    /\ versionsAdded = 0
    /\ apiCalls = <<>>
    /\ result = <<>>

\* the handler has not been triggered
IdleHandler ==
    /\ hpc = "idle"
    /\ event = [type |-> "absent", name |-> FALSE, secret_id |-> FALSE,
                resource_container |-> "absent", logName |-> FALSE]
    /\ secret = NoSecret
    /\ secret_resource = NotFetched
    /\ now = datetime(2025, 12, 31, 23, 10, 0, 0)
    /\ extension = NoDuration
    /\ new_expiration = <<>>
    /\ keysCreated = 0
    /\ versionsAdded = 0
    /\ apiCalls = <<>>
    /\ result = <<>>

\* the type test dropped: every event is processed
AnyEventType(t) == TRUE

\* event_type != 'EXPIRES_IN_1_HOUR' returns "OK"
IsExpiresIn1Hour(t) == t = "EXPIRES_IN_1_HOUR"

\* the handler from its entry to the get_secret call: the type test, the
\* extraction of the secret's name, id, project number and project id
HandleEvent ==
    /\ hpc = "start"
    /\ IF ~IsExpiresIn1Hour(event.type)
       THEN hpc' = "done" /\ result' = OK
       ELSE IF event.resource_container = "absent"
       THEN \* None.replace(...) raises AttributeError, caught at the end
            hpc' = "done" /\ result' = ERROR_exception
       ELSE IF ~(event.name /\ event.secret_id /\ event.resource_container = "set"
                 /\ event.logName)
       THEN hpc' = "done" /\ result' = ERROR("Missing required information")
       ELSE hpc' = "get_secret" /\ UNCHANGED result
    /\ UNCHANGED <<event, secret, secret_resource, now, extension, new_expiration,
                   keysCreated, versionsAdded, apiCalls>>
    /\ UNCHANGED procVars

\* the label test with "and" for "or": one label is enough
BothLabelsMissing(s) ==
    /\ NameMissing(s.ccoe_service_account_name)
    /\ TextMissing(s.ccoe_expiration_extension_time)

\* not ccoe_service_account_name or not ccoe_expiration_extension_time_str
RequiredLabelMissing(s) ==
    \/ NameMissing(s.ccoe_service_account_name)
    \/ TextMissing(s.ccoe_expiration_extension_time)

\* secret_client.get_secret, the test of the two labels and the parse of the
\* extension
GetSecret ==
    /\ hpc = "get_secret"
    /\ apiCalls' = Append(apiCalls, "get_secret")
    /\ \E ok \in BOOLEAN :
          IF ~ok
          THEN /\ hpc' = "done" /\ result' = ERROR_exception
               /\ UNCHANGED <<secret_resource, extension>>
          ELSE /\ secret_resource' = Fetched(secret)
               /\ IF RequiredLabelMissing(Fetched(secret))
                  THEN hpc' = "done" /\ result' = OK /\ UNCHANGED extension
                  ELSE IF ~DurationWellFormed(Fetched(secret).ccoe_expiration_extension_time)
                  THEN /\ hpc' = "done"
                       /\ result' = ERROR("Invalid ccoe_expiration_extension_time value")
                       /\ UNCHANGED extension
                  ELSE /\ hpc' = "create_key"
                       /\ extension' =
                            parse_time_duration(Fetched(secret).ccoe_expiration_extension_time)
                       /\ UNCHANGED result
    /\ UNCHANGED <<event, secret, now, new_expiration, keysCreated, versionsAdded>>
    /\ UNCHANGED procVars

\* iam_client.create_service_account_key
CreateKey ==
    /\ hpc = "create_key"
    /\ apiCalls' = Append(apiCalls, "create_service_account_key")
    /\ \E ok \in BOOLEAN :
          IF ok
          THEN hpc' = "add_version" /\ keysCreated' = keysCreated + 1 /\ UNCHANGED result
          ELSE hpc' = "done" /\ result' = ERROR_exception /\ UNCHANGED keysCreated
    /\ UNCHANGED <<event, secret, secret_resource, now, extension, new_expiration,
                   versionsAdded>>
    /\ UNCHANGED procVars

\* add_secret_version with a rollback: when the call fails the key that
\* was just created is deleted again
AddSecretVersionOrDeleteKey ==
    /\ hpc = "add_version"
    /\ apiCalls' = Append(apiCalls, "add_secret_version")
    /\ \E ok \in BOOLEAN :
          IF ok
          THEN /\ hpc' = "extend" /\ versionsAdded' = versionsAdded + 1
               /\ UNCHANGED <<result, keysCreated>>
          ELSE /\ hpc' = "done" /\ result' = ERROR_exception
               /\ keysCreated' = keysCreated - 1
               /\ UNCHANGED versionsAdded
    /\ UNCHANGED <<event, secret, secret_resource, now, extension, new_expiration>>
    /\ UNCHANGED procVars

\* secret_client.add_secret_version
AddSecretVersion ==
    /\ hpc = "add_version"
    /\ apiCalls' = Append(apiCalls, "add_secret_version")
    /\ \E ok \in BOOLEAN :
          IF ok
          THEN hpc' = "extend" /\ versionsAdded' = versionsAdded + 1 /\ UNCHANGED result
          ELSE hpc' = "done" /\ result' = ERROR_exception /\ UNCHANGED versionsAdded
    /\ UNCHANGED <<event, secret, secret_resource, now, extension, new_expiration,
                   keysCreated>>
    /\ UNCHANGED procVars

\* the extension measured from the clock instead of the expiration read
ExtensionFromNow(read, clock) == clock

\* current_exp_dt: what the extension is added to, the expiration read
\* (the handler never reads the clock)
ExtensionBase(read, clock) == read

\* the new expiration: the expiration read plus the extension, formatted, and
\* secret_client.update_secret with the text, which Secret Manager stores as
\* the timestamp the text denotes
ExtendExpiration ==
    /\ hpc = "extend"
    /\ IF secret_resource.expire_time = NoExpiration
       THEN /\ hpc' = "done"
            /\ result' = ERROR("No current expiration time found")
            /\ UNCHANGED <<secret, new_expiration, apiCalls>>
       ELSE /\ new_expiration' =
                 strftime(DatetimePlus(ExtensionBase(secret_resource.expire_time, now),
                                       extension))
            /\ apiCalls' = Append(apiCalls, "update_secret")
            /\ hpc' = "done"
            /\ \E ok \in BOOLEAN :
                  IF ok
                  THEN /\ secret' = [secret EXCEPT
                                        !.expire_time = FromJsonString(new_expiration')]
                       /\ result' = OK
                  ELSE /\ result' = ERROR_exception
                       /\ UNCHANGED secret
    /\ UNCHANGED <<event, secret_resource, now, extension, keysCreated, versionsAdded>>
    /\ UNCHANGED procVars

NextHandler ==
    \/ HandleEvent
    \/ GetSecret
    \/ CreateKey
    \/ AddSecretVersion
    \/ ExtendExpiration

-----------------------------------------------------------------------------
(* The specifications *)

\* one run of the exceptions processor's command line
Init == InitProcessor /\ IdleHandler
Next == NextProcessor
Spec == Init /\ [][Next]_vars

\* one invocation of handle_secret_expiration
InitSecret == IdleProcessor /\ InitHandler
NextSecret == NextHandler
SpecSecret == InitSecret /\ [][NextSecret]_vars

\* the same invocation, run to its end: the handler is one synchronous call,
\* each statement runs once the one before it has returned or raised
SpecSecretFair == InitSecret /\ [][NextSecret]_vars /\ WF_vars(NextSecret)

-----------------------------------------------------------------------------
(* Properties of the exceptions processor (specification Spec) *)

\* process_exceptions is past model_validate: in the loop, writing or finished
Validated == pc \in {"loop", "dump", "done"}

\* the rules the loop has finished with
Processed == next_rule - 1

NoRepeats(s) == \A a, b \in 1..Len(s) : a # b => s[a] # s[b]

\* the position of the first occurrence of x in s
FirstIndex(s, x) == CHOOSE a \in 1..Len(s) : s[a] = x /\ \A b \in 1..(a - 1) : s[b] # x

\* C1: every document that passes validation has pairwise-distinct rule ids: a
\* document with a repeated id fails at model_validate and never reaches the
\* matching loop or the write.
C1_ValidatedIdsDistinct ==
    Validated =>
        \A a, b \in 1..Len(schema_data.exceptions) :
            a # b => schema_data.exceptions[a].id # schema_data.exceptions[b].id

\* C2: for a document accepted by validation the matching loop never raises:
\* every rule that reaches re.match has a pattern that compiles.
C2_MatchingNeverRaises ==
    /\ err # "re.error"
    /\ Validated =>
          \A k \in 1..Len(schema_data.exceptions) :
              Compiles(schema_data.exceptions[k].project_id_regex)

\* a document with a validation error in the sense of the specification: a
\* field constraint or the type, a repeated id, a pattern that does not compile
InvalidDocument(d) ==
    \/ ~ExceptionsSchemaOk(d)
    \/ \E a, b \in 1..Len(d.exceptions) : a # b /\ d.exceptions[a].id = d.exceptions[b].id
    \/ \E k \in 1..Len(d.exceptions) : ~Compiles(d.exceptions[k].project_id_regex)

\* C3: an invalid document is rejected before any matching and before the
\* output file is opened: the run never enters the loop and the output path is
\* not touched by it.
C3_InvalidInputRejectedEarly ==
    (jsonOk /\ InvalidDocument(schema_data)) =>
        /\ ~Validated
        /\ ~outFile.fresh

\* the dumped service accounts of the rules among the first k that the loop
\* logged as matching, in rule order and then declaration order
RECURSIVE Contributed(_)
Contributed(k) ==
    IF k = 0 THEN <<>>
    ELSE LET sas == schema_data.exceptions[k].spec.service_accounts IN
         Contributed(k - 1) \o
             (IF log[k].matched THEN [j \in 1..Len(sas) |-> model_dump(sas[j])] ELSE <<>>)

\* C4: after every iteration of the loop, service_accounts is the concatenation
\* of the matching rules' service accounts with every entry equal (in all four
\* fields) to an earlier one removed: no two entries are equal, the entries
\* are those of the concatenation, and they stand in the order of their first
\* occurrences.
C4_FirstOccurrenceDedup ==
    Validated =>
        LET c == Contributed(Processed) IN
        /\ NoRepeats(service_accounts)
        /\ Range(service_accounts) = Range(c)
        /\ \A a, b \in 1..Len(service_accounts) :
              a < b => FirstIndex(c, service_accounts[a]) < FirstIndex(c, service_accounts[b])

\* C4 witness: a finished run in which two rules matched, a later entry equal
\* to an earlier one was dropped, and two entries of one name were both kept
C4_Witness ==
    /\ pc = "done"
    /\ Len(matched_exceptions) = 2
    /\ Len(service_accounts) < Len(Contributed(Processed))
    /\ \E a, b \in 1..Len(service_accounts) :
          a # b /\ service_accounts[a].name_suffix = service_accounts[b].name_suffix

\* the ids of the rules among the first k whose pattern matches the project id
RECURSIVE MatchingIds(_)
MatchingIds(k) ==
    IF k = 0 THEN <<>>
    ELSE MatchingIds(k - 1) \o
             (IF ReMatch(schema_data.exceptions[k].project_id_regex, project_id)
              THEN <<schema_data.exceptions[k].id>> ELSE <<>>)

\* the offsets at which a match of p from its item at k can end, P being the
\* offsets reached before that item
RECURSIVE EndsAfter(_, _, _, _)
EndsAfter(p, k, s, P) ==
    IF k > Len(p) THEN P
    ELSE IF p[k] = "^" THEN EndsAfter(p, k + 1, s, P \cap {0})
    ELSE IF p[k] = "$" THEN EndsAfter(p, k + 1, s, P \cap {Len(s)})
    ELSE IF k < Len(p) /\ p[k + 1] = "*"
         THEN EndsAfter(p, k + 2, s,
                  {e \in 0..Len(s) :
                      \E b \in P : b <= e /\ \A m \in (b + 1)..e : p[k] \in {".", s[m]}})
    ELSE EndsAfter(p, k + 1, s,
                  {b + 1 : b \in {x \in P : x < Len(s) /\ p[k] \in {".", s[x + 1]}}})

\* the offsets at which a match of p that starts at offset j of s can end
MatchEnds(p, s, j) == EndsAfter(p, 1, s, {j})

\* the loop is at a rule whose pattern compiles and does not match
AtNonMatchingRule ==
    /\ pc = "loop"
    /\ next_rule <= Len(schema_data.exceptions)
    /\ Compiles(schema_data.exceptions[next_rule].project_id_regex)
    /\ MatchEnds(schema_data.exceptions[next_rule].project_id_regex, project_id, 0) = {}

\* C5: for a validated document the matched-rule list is the ids of the rules
\* whose pattern matches, in document order, no id omitted and no id repeated;
\* processing a non-matching rule raises nothing and leaves the matched-rule
\* list, service_accounts and iam_policy_overrides as they were.
C5_MatchedIdsExactOnce ==
    /\ [](  Validated =>
               /\ matched_exceptions = MatchingIds(Processed)
               /\ NoRepeats(matched_exceptions) )
    /\ [][ AtNonMatchingRule =>
               /\ pc' = "loop" /\ err' = "none"
               /\ matched_exceptions' = matched_exceptions
               /\ service_accounts' = service_accounts
               /\ iam_policy_overrides' = iam_policy_overrides ]_vars

\* C6: a rule matches exactly when its pattern matches from offset 0 of the
\* project id, wherever that match ends: ^lab- matches lab-dev-01 and
\* lab-devops-99, and ^prod-.*$ does not match staging-prod-1.
C6_MatchFromStartAnyEnd ==
    \A k \in 1..Len(log) :
        LET p == schema_data.exceptions[k].project_id_regex IN
        /\ log[k].matched <=> MatchEnds(p, project_id, 0) # {}
        /\ (p = re_lab /\ project_id \in {lab_dev_01, lab_devops_99}) => log[k].matched
        /\ (p = re_prod /\ project_id = staging_prod_1) => ~log[k].matched

\* C6 witness: one rule matched although no match from offset 0 reaches the
\* end of the project id, another did not match although its pattern matches
\* from a later offset
C6_Witness ==
    /\ \E k \in 1..Len(log) :
          /\ log[k].matched
          /\ Len(project_id) \notin
                 MatchEnds(schema_data.exceptions[k].project_id_regex, project_id, 0)
    /\ \E k \in 1..Len(log) :
          /\ ~log[k].matched
          /\ \E j \in 1..Len(project_id) :
                 MatchEnds(schema_data.exceptions[k].project_id_regex, project_id, j) # {}

\* C7: at every instant the output path holds the complete previous content
\* (or no file) or the complete new document, never an empty or truncated one.
C7_OutputNeverPartial ==
    \/ outFile \in {Absent, OldFile}
    \/ /\ outFile.complete
       /\ outFile.data = terraform_vars

\* C8: with --schema-json-string holding invalid JSON the run exits with a
\* non-zero status before process_exceptions is called: it never gets past the
\* load, the output path is not written and its parent directory not created.
C8_InvalidJsonStringExits ==
    /\ [](  (mode = "string" /\ ~jsonOk) =>
               /\ pc \in {"start", "exited"}
               /\ pc = "exited" => exit_code # 0 /\ exit_code # -1
               /\ ~outFile.fresh )
    /\ [][ (mode = "string" /\ ~jsonOk) =>
               /\ outFile' = outFile
               /\ parentDir' = parentDir ]_vars

\* C8 witness: the run has exited on the invalid string, the parent directory
\* still missing
C8_Witness ==
    /\ mode = "string" /\ ~jsonOk
    /\ pc = "exited" /\ exit_code = 1
    /\ ~parentDir /\ outFile = Absent

-----------------------------------------------------------------------------
(* Properties of the secret renewal function (specification SpecSecret) *)

\* the event carries everything the handler extracts from it
EventComplete ==
    /\ event.name /\ event.secret_id /\ event.logName
    /\ event.resource_container = "set"

\* the secret lacks one of the two labels: absent, or empty
SecretLacksALabel ==
    \/ secret.ccoe_service_account_name \in {"absent", "empty"}
    \/ secret.ccoe_expiration_extension_time \in {<<"absent">>, <<>>}

\* C9: for an event whose type is not EXPIRES_IN_1_HOUR (or that has no type)
\* the handler returns "OK" and makes no API call: it does not read the
\* secret, creates no key, adds no version and leaves the expiration alone.
C9_OtherEventTypesIgnored ==
    /\ [](  event.type # "EXPIRES_IN_1_HOUR" =>
               /\ apiCalls = <<>>
               /\ keysCreated = 0
               /\ versionsAdded = 0
               /\ hpc \in {"idle", "start", "done"}
               /\ hpc = "done" => result = OK )
    /\ [][ event.type # "EXPIRES_IN_1_HOUR" => secret' = secret ]_vars

\* C9 witness: an event of another type that names a secret with both labels
\* and an expiration has been answered "OK"
C9_Witness ==
    /\ event.type = "EXPIRES_IN_1_DAY"
    /\ EventComplete
    /\ ~SecretLacksALabel
    /\ secret.expire_time = Expiration0
    /\ hpc = "done" /\ result = OK

\* C10, as stated: for an EXPIRES_IN_1_HOUR event whose secret lacks one of the
\* two labels the handler returns "OK" and creates no key, adds no version and
\* leaves the expiration unchanged.
C10_MissingLabelReturnsOK ==
    (event.type = "EXPIRES_IN_1_HOUR" /\ EventComplete /\ SecretLacksALabel) =>
        /\ keysCreated = 0
        /\ versionsAdded = 0
        /\ hpc = "done" => result = OK

\* C10, amended: for an EXPIRES_IN_1_HOUR event whose secret lacks one of the
\* two labels the handler creates no key, adds no version, calls nothing but
\* get_secret and leaves the secret unchanged; it returns "OK" when get_secret
\* has returned the secret, and an "ERROR: " text when get_secret failed.
C10_MissingLabelNoEffect ==
    /\ [](  (event.type = "EXPIRES_IN_1_HOUR" /\ EventComplete /\ SecretLacksALabel) =>
               /\ keysCreated = 0
               /\ versionsAdded = 0
               /\ \A k \in 1..Len(apiCalls) : apiCalls[k] = "get_secret"
               /\ hpc = "done" =>
                     IF secret_resource.fetched THEN result = OK
                     ELSE result[1] = "ERROR: " )
    /\ [][ (event.type = "EXPIRES_IN_1_HOUR" /\ EventComplete /\ SecretLacksALabel) =>
               secret' = secret ]_vars

\* C10 witness: the secret carries a well-formed extension and an expiration
\* but no service account name; it was read and the handler answered "OK"
C10_Witness ==
    /\ event.type = "EXPIRES_IN_1_HOUR" /\ EventComplete
    /\ secret.ccoe_service_account_name = "absent"
    /\ secret.ccoe_expiration_extension_time = <<"1", "d">>
    /\ secret.expire_time = Expiration0
    /\ secret_resource.fetched
    /\ hpc = "done" /\ result = OK


-----------------------------------------------------------------------------
(* The renewal itself (specification SpecSecret) *)

\* the handler has returned "OK" after update_secret
ExpirationUpdated ==
    /\ hpc = "done" /\ result = OK
    /\ Len(apiCalls) = 4 /\ apiCalls[4] = "update_secret"

\* C11: whenever the handler has updated the secret's expiration, the new
\* expiration is the expiration that get_secret read plus the duration the
\* label denotes (its number times a day for d, an hour for h, a minute for
\* m), whatever the clock was when the handler ran.
C11_ExtendedFromReadExpiration ==
    ExpirationUpdated =>
        LET label == secret_resource.ccoe_expiration_extension_time
            n == Len(label)
            a == DigitRun(label, 1)
            f == IF a = n - 1 THEN 0 ELSE n - a - 2
            \* the label's number times 10^f
            number == DecimalValue(label, 1, a) * Pow10(f)
                      + (IF f = 0 THEN 0 ELSE DecimalValue(label, a + 2, n - 1))
            unit == IF label[n] \in {"d", "D"} THEN 24 * 60 * 60
                    ELSE IF label[n] \in {"h", "H"} THEN 60 * 60 ELSE 60
            read == secret_resource.expire_time
            new == secret.expire_time
            borrow == IF new.us < read.us THEN 1 ELSE 0
            ds == new.s - read.s - borrow
            dus == new.us - read.us + borrow * 1000000
        IN  /\ new.us \in 0..999999
            /\ (dus * Pow10(f)) % 1000000 = 0
            /\ ds * Pow10(f) + (dus * Pow10(f)) \div 1000000 = number * unit

\* C11 witness: a secret expiring at 2027-12-31T23:59:59.999999Z with the
\* label 0.001m was renewed when the clock showed 23:59:00.000005, and now
\* expires in the next year
C11_Witness ==
    /\ ExpirationUpdated
    /\ secret_resource.expire_time = Expiration1
    /\ secret_resource.ccoe_expiration_extension_time = <<"0", ".", "0", "0", "1", "m">>
    /\ now = datetime(2027, 12, 31, 23, 59, 0, 5)
    /\ new_expiration = <<"2", "0", "2", "8", "-", "0", "1", "-", "0", "1", "T",
                          "0", "0", ":", "0", "0", ":", "0", "0", ".",
                          "0", "5", "9", "9", "9", "9", "Z">>
    /\ secret.expire_time = datetime(2028, 1, 1, 0, 0, 0, 59999)


\* C12: every invocation ends and returns "OK" or a text that begins with
\* "ERROR: ", whatever the event holds and whichever API call fails; nothing
\* is returned before the end, no API call is made twice and none is made
\* after the handler has returned.
C12_AlwaysReturnsStatus ==
    /\ <>(hpc = "done")
    /\ [](  /\ hpc = "done" =>
                  \/ result = <<"OK">>
                  \/ Len(result) = 2 /\ result[1] = "ERROR: "
            /\ hpc # "done" => result = <<>>
            /\ \A j, k \in 1..Len(apiCalls) : apiCalls[j] = apiCalls[k] => j = k )
    /\ [][ hpc = "done" => apiCalls' = apiCalls ]_vars

\* C12 witness: create_service_account_key failed, and the handler returned
\* the error text after its two API calls
C12_Witness ==
    /\ hpc = "done"
    /\ apiCalls = <<"get_secret", "create_service_account_key">>
    /\ keysCreated = 0
    /\ result = <<"ERROR: ", "exception">>


\* the API calls of one renewal, in the order of the code
RenewalOrder ==
    <<"get_secret", "create_service_account_key", "add_secret_version", "update_secret">>

\* the handler returned an "ERROR" text
ReturnedError == hpc = "done" /\ Len(result) = 2 /\ result[1] = "ERROR: "

\* C13: the calls are made in the order create key, add version, update
\* expiration, each only after the one before it succeeded; a key or a
\* version, once created, stays; and when the handler ends with a key created
\* but the expiration not extended it has returned an "ERROR" text.
C13_FixedOrderNoRollback ==
    /\ [](  /\ Len(apiCalls) <= 4
            /\ \A k \in 1..Len(apiCalls) : apiCalls[k] = RenewalOrder[k]
            /\ keysCreated \in 0..1 /\ versionsAdded \in 0..1
            /\ keysCreated = 1 => Len(apiCalls) >= 2
            /\ versionsAdded = 1 => Len(apiCalls) >= 3 /\ keysCreated = 1
            /\ Len(apiCalls) >= 3 => keysCreated = 1
            /\ Len(apiCalls) >= 4 => versionsAdded = 1
            /\ (hpc = "done" /\ keysCreated = 1
                /\ secret.expire_time = secret_resource.expire_time) =>
                  Len(result) = 2 /\ result[1] = "ERROR: " )
    /\ [][ /\ keysCreated' >= keysCreated /\ versionsAdded' >= versionsAdded
            /\ secret' # secret => versionsAdded = 1 /\ apiCalls' = RenewalOrder ]_vars

\* C13 witness: add_secret_version failed after the key was created; the
\* handler returned an "ERROR" text and the secret still expires when it did
C13_Witness ==
    /\ ReturnedError
    /\ apiCalls = <<"get_secret", "create_service_account_key", "add_secret_version">>
    /\ keysCreated = 1 /\ versionsAdded = 0
    /\ secret.expire_time = Expiration0


-----------------------------------------------------------------------------
(* The override branch (specification Spec) *)

\* C14: a document that holds a rule of type override_iam_policies does not
\* pass validation, so the loop never processes such a rule, the
\* iam_policy_overrides list stays empty, and every output file the run
\* writes holds the empty array under iam_policy_overrides.
C14_OverridesAlwaysEmpty ==
    /\ pc \in {"loop", "dump", "done"} =>
          \A k \in 1..Len(schema_data.exceptions) :
              schema_data.exceptions[k].type # "override_iam_policies"
    /\ iam_policy_overrides = <<>>
    /\ outFile.fresh =>
          \A k \in 1..Len(outFile.data) :
              outFile.data[k][1] = "iam_policy_overrides" => outFile.data[k][2] = <<>>
    /\ (outFile.fresh /\ outFile.complete) =>
          /\ Len(outFile.data) = 4
          /\ outFile.data[4] = <<"iam_policy_overrides", <<>>>>

\* C14 witness: a document whose second rule is of type override_iam_policies
\* and would match the project id was rejected with "Invalid schema"; nothing
\* was written
C14_Witness ==
    /\ pc = "raised" /\ err = "ValueError: Invalid schema"
    /\ schema_data.version = <<"1", ".", "0", ".", "0">>
    /\ schema_data.exceptions =
          <<Rule(id100, "create_service_accounts", re_lab, <<saApi, saData>>), overrideRule>>
    /\ project_id = lab_dev_01
    /\ ~outFile.fresh

=============================================================================
